---- MODULE Spec2Model ----
(***************************************************************************)
(* The spill-aware build side of the hash join                             *)
(* (be/src/exec/pipeline/hashjoin/spillable_hash_join_build_operator.cpp): *)
(* one SpillableHashJoinBuildOperator instance, its Build Index (hash      *)
(* table), its Spill Engine (spiller), its Spill Channel and the I/O       *)
(* executor that runs the channel's tasks, plus the Join Filter Merger it  *)
(* shares with the other build instances of the join node.                 *)
(*                                                                         *)
(* A second specification, PublishSpec, is the agent task that publishes a *)
(* transaction's version on its tablets (be/src/agent/publish_version.cpp, *)
(* run_publish_version_task): the submitting thread, the thread pool that  *)
(* runs the per-tablet tasks, and the storage engine's tablets.            *)
(***************************************************************************)
EXTENDS Integers, Sequences, FiniteSets, TLC

\* ------------------------------------------------------------------ bounds
\* Rows are numbered 1, 2, ... in the order they are pushed.
MaxRows == 3
\* Largest batch one push_chunk call carries.
MaxBatch == 2
\* runtime_state()->chunk_size(): the largest batch cutoff() hands out.
ChunkSize == 2
\* Rows the Spill Engine buffers before is_full() reports true.
FullRows == 3
\* Number of spill partitions (rows go to partition hash % NumPartitions).
NumPartitions == 2
\* Build instances of the join node other than the modelled one.
NumPeers == 1
\* Largest number of tablets a published transaction touches.
MaxTablets == 2

\* ------------------------------------------------------- program constants
\* Leading bookkeeping rows of the hash table's build chunk, skipped by the
\* drain cursor.
kHashJoinKeyColumnOffset == 1

NO_SPILL == "NO_SPILL"
SPILL_ALL == "SPILL_ALL"
OK == "OK"
Cancelled == "Cancelled"
IOError == "IOError"
NoStatus == "none"

\* publish_version.cpp: submissions of one tablet task to the pool, at most
PUBLISH_VERSION_SUBMIT_MAX_RETRY == 10
NotFound == "NotFound"
ServiceUnavailable == "ServiceUnavailable"
RuntimeError == "RuntimeError"
InternalError == "InternalError"

VARIABLES
    phase,                \* lifecycle: constructed, prepared, prepare_failed, finishing
    spill_mode,           \* state->spill_mode() seen by prepare
    strategy,             \* _join_builder's spill strategy
    is_finished,          \* _is_finished
    is_first_time_spill,  \* _is_first_time_spill
    build_chunk,          \* hash table build chunk: bookkeeping row 0, then the rows
    slice,                \* _hash_table_build_chunk_slice: rows the drain task still owes
    revocable_mem_bytes,  \* set_revocable_mem_bytes(...) of the last push
    build_rows,           \* rows the drain task reported through update_build_rows
    mem_buf,              \* Spill Engine: rows buffered, not yet in a block
    blocks,               \* Spill Engine: rows written to blocks, in write order
    spiller_cancelled,    \* Spill Engine: cancel() was called
    flush_cb,             \* flush-all callback: none, registered, fired
    tasks,                \* Spill Channel: queued tasks (FIFO)
    current,              \* Spill Channel: the task the executor is running
    chan_finishing,       \* Spill Channel: set_finishing() was called
    cancelled,            \* state->is_cancelled()
    nrvo,                 \* whether the build elides the copy of set_finishing's ret_status
    active_builders,      \* Join Filter Merger: instances that have not voted yet
    always_true,          \* Join Filter Merger: some instance voted always-true
    published,            \* filter sets published for the node, in order
    collector_sets,       \* number of set_collector calls for the node
    probe_entered,        \* number of enter_probe_phase calls
    next_row,             \* next fresh row number
    lastOp,               \* the last operation that ran
    ret,                  \* status returned by the last operation
    fin,                  \* set_finishing's record: path, publication and flush-step results,
                          \* and whether the query was cancelled when it ran
    mark_called,          \* mark_need_spill() has been called
    marked_unfinished,    \* mark_need_spill() has been called while not finished
    drain_created,        \* number of drain tasks created by _convert_hash_map_to_chunk
    accepted_pre,         \* rows pushed in NO_SPILL
    spill_pushes,         \* number of non-empty batches pushed in SPILL_ALL
    accepted_post,        \* rows handed to push_chunk in SPILL_ALL that reached the spill buffer
    io_failed             \* a spilling push, a drain step or the flush registration has failed

\* run_publish_version_task
VARIABLES
    pc,                   \* submitting thread: idle, submit, wait, collect, done
    tablet_tasks,         \* tablet_tasks: per task tablet_id, rowset (present or not), st
    tablet_idx,           \* the task the submit loop is at
    retry_time,           \* retry_time of the submit loop
    pool,                 \* tasks submitted to the pool token and not yet run
    tablets,              \* storage engine: per tablet, exists and max_continuous_version
    affected_dirs,        \* affected_dirs (the data dir of tablet t is numbered t)
    finish_task,          \* finish_task as filled in at the end
    body_runs,            \* per task, number of times its body ran
    publish_calls,        \* per task, number of publish_txn calls
    dropped_seen,         \* tasks whose body found the tablet dropped
    warnings,             \* LOG(WARNING) lines of the task bodies: <<kind, tablet_id>>
    last_submit           \* per task, what its latest submit_func call returned

pubVars == <<pc, tablet_tasks, tablet_idx, retry_time, pool, tablets, affected_dirs,
             finish_task, body_runs, publish_calls, dropped_seen, warnings, last_submit>>

opVars == <<phase, spill_mode, strategy, is_finished, is_first_time_spill, build_chunk, slice,
            revocable_mem_bytes, build_rows>>
spillVars == <<mem_buf, blocks, spiller_cancelled, flush_cb>>
chanVars == <<tasks, current, chan_finishing>>
envVars == <<cancelled, nrvo>>
mergerVars == <<active_builders, always_true, published, collector_sets>>
histVars == <<probe_entered, next_row, lastOp, ret, fin, mark_called, marked_unfinished,
              drain_created, accepted_pre, spill_pushes, accepted_post, io_failed>>
joinVars == <<opVars, spillVars, chanVars, envVars, mergerVars, histVars>>
vars == <<joinVars, pubVars>>

\* ----------------------------------------------------------------- helpers
Range(s) == {s[i] : i \in 1..Len(s)}

RECURSIVE Iota(_, _)
\* the rows from..from+n-1, in order
Iota(from, n) == IF n = 0 THEN <<>> ELSE <<from>> \o Iota(from + 1, n - 1)

Prefix(s, n) == SubSeq(s, 1, IF n < Len(s) THEN n ELSE Len(s))
Suffix(s, n) == SubSeq(s, (IF n < Len(s) THEN n ELSE Len(s)) + 1, Len(s))

\* A batch handed to push_chunk: absent (null ChunkPtr) or a sequence of rows.
Chunk(present, rows) == [present |-> present, rows |-> rows]
ChunkIsEmpty(chunk) == Len(chunk.rows) = 0


\* The hash table's build chunk right after construction or reset: only the
\* bookkeeping rows (row number 0).
EmptyBuildChunk == [i \in 1..kHashJoinKeyColumnOffset |-> 0]
\* hash_table().mem_usage(), in rows
MemUsage(bc) == Len(bc)
\* The rows the Build Index holds.
BuildIndexRows(bc) == Range(Suffix(bc, kHashJoinKeyColumnOffset))

\* fnv hash of the join key of a row, reduced to its spill partition
PartitionOf(r) == r % NumPartitions

\* ------------------------------------------------- Spill Engine (spiller)
\* is_full(): buffered-but-unflushed data reached the ceiling
SpillerIsFull == Len(mem_buf) >= FullRows
\* spilled(): something has been written to a block
Spilled == blocks # <<>>
\* The spill stream: every row handed to the Spill Engine, in arrival order.
SpillStream == blocks \o mem_buf
\* The rows of one partition of the spill stream, in order.
PartitionStream(p) ==
    LET InP(r) == PartitionOf(r) = p IN SelectSeq(SpillStream, InP)

\* ---------------------------------------------------------- Spill Channel
\* has_task(): the queue is not empty
HasTask == tasks # <<>>
\* is_working(): a task is executing
IsWorking == current # "none"

\* ----------------------------------------------------- the build operator
\* is_finished()
IsFinished == is_finished

\* need_input() with the has_task() test negated
NeedInput_negated_has_task == ~IsFinished /\ ~(SpillerIsFull \/ ~HasTask)

\* need_input()
NeedInput == ~IsFinished /\ ~(SpillerIsFull \/ HasTask)

\* prepare() setting SPILL_ALL whatever the spill mode
PrepareStrategy_unconditional(strat, mode) == SPILL_ALL

\* prepare(): the strategy after the spill-mode test
PrepareStrategy(strat, mode) == IF mode = "FORCE" THEN SPILL_ALL ELSE strat

\* mark_need_spill() with the _is_finished test inverted
MarkStrategy_inverted(strat, finished) == IF finished THEN SPILL_ALL ELSE strat
\* mark_need_spill() without the _is_finished test
MarkStrategy_unguarded(strat, finished) == SPILL_ALL
\* mark_need_spill() resetting the strategy of a finished instance
MarkStrategy_reset(strat, finished) == IF ~finished THEN SPILL_ALL ELSE NO_SPILL

\* mark_need_spill(): the strategy it leaves
MarkStrategy(strat, finished) == IF ~finished THEN SPILL_ALL ELSE strat

\* _convert_hash_map_to_chunk(): the cursor over the build chunk, past the
\* bookkeeping rows
ConvertHashMapToChunk(bc) == Suffix(bc, kHashJoinKeyColumnOffset)

\* push_chunk leaving _is_first_time_spill set
FirstTimeSpillAfterDrain_kept == TRUE

\* push_chunk: the value _is_first_time_spill takes when the drain task is created
FirstTimeSpillAfterDrain == FALSE

\* the drain task's end test: _hash_table_build_chunk_slice.empty()
DrainExhausted(s) == s = <<>>

\* set_finishing(): what the caller receives, given the result of filter
\* publication and of the deferred flush step.  The deferred step assigns
\* ret_status after the return statement has been evaluated, so the caller
\* sees its result only when the build elides the copy of ret_status.
FinishingResult(pub, st, elide) ==
    IF elide THEN (IF pub = OK THEN st ELSE pub) ELSE pub

\* No publish task is running (the state of these variables throughout Spec).
PublishIdle ==
    /\ pc = "idle"
    /\ tablet_tasks = <<>>
    /\ tablet_idx = 0
    /\ retry_time = 0
    /\ pool = {}
    /\ tablets = <<>>
    /\ affected_dirs = {}
    /\ finish_task = [task_status |-> NoStatus, error_tablet_ids |-> <<>>,
                      isset_error_tablet_ids |-> FALSE, tablet_versions |-> <<>>,
                      isset_tablet_versions |-> FALSE]
    /\ body_runs = <<>>
    /\ publish_calls = <<>>
    /\ dropped_seen = {}
    /\ warnings = {}
    /\ last_submit = <<>>

\* ------------------------------------------------------------------- Init
Init ==
    /\ phase = "constructed"
    /\ spill_mode \in {"AUTO", "FORCE"}
    /\ strategy = NO_SPILL
    /\ is_finished = FALSE
    /\ is_first_time_spill = TRUE
    /\ build_chunk = EmptyBuildChunk
    /\ slice = <<>>
    /\ revocable_mem_bytes = 0
    /\ build_rows = 0
    /\ mem_buf = <<>>
    /\ blocks = <<>>
    /\ spiller_cancelled = FALSE
    /\ flush_cb = "none"
    /\ tasks = <<>>
    /\ current = "none"
    /\ chan_finishing = FALSE
    /\ cancelled = FALSE
    /\ nrvo \in BOOLEAN
    /\ active_builders = NumPeers + 1
    /\ always_true = FALSE
    /\ published = <<>>
    /\ collector_sets = 0
    /\ probe_entered = 0
    /\ next_row = 1
    /\ lastOp = "none"
    /\ ret = NoStatus
    /\ fin = [path |-> "none", pub |-> NoStatus, flush |-> NoStatus, ret |-> NoStatus,
              cancelled |-> FALSE]
    /\ mark_called = FALSE
    /\ marked_unfinished = FALSE
    /\ drain_created = 0
    /\ accepted_pre = {}
    /\ spill_pushes = 0
    /\ accepted_post = {}
    /\ io_failed = FALSE
    /\ PublishIdle

\* ---------------------------------------------------------------- prepare
\* prepare(state): the spiller is prepared, and a forced spill mode selects
\* SPILL_ALL from the start.
prepare ==
    /\ phase = "constructed"
    /\ \E spiller_prepare \in {OK, IOError} :
        IF spiller_prepare # OK
        THEN /\ phase' = "prepare_failed"
             /\ ret' = spiller_prepare
             /\ UNCHANGED strategy
        ELSE /\ phase' = "prepared"
             /\ ret' = OK
             /\ strategy' = PrepareStrategy(strategy, spill_mode)
    /\ lastOp' = "prepare"
    /\ UNCHANGED <<spill_mode, is_finished, is_first_time_spill, build_chunk, slice,
                   revocable_mem_bytes, build_rows>>
    /\ UNCHANGED <<spillVars, chanVars, envVars, mergerVars>>
    /\ UNCHANGED <<probe_entered, next_row, fin, mark_called, marked_unfinished,
                   drain_created, accepted_pre, spill_pushes, accepted_post, io_failed>>
    /\ UNCHANGED pubVars

\* ------------------------------------------------------------- push_chunk
\* HashJoinBuildOperator::push_chunk: the batch is inserted into the hash
\* table; an empty or absent batch inserts nothing.
BasePushChunk(chunk, fail) ==
    IF ~chunk.present \/ ChunkIsEmpty(chunk)
    THEN /\ ret' = OK
         /\ UNCHANGED <<build_chunk, accepted_pre>>
    ELSE IF fail = "ht"
    THEN /\ ret' = IOError
         /\ UNCHANGED <<build_chunk, accepted_pre>>
    ELSE /\ ret' = OK
         /\ build_chunk' = build_chunk \o chunk.rows
         /\ accepted_pre' = accepted_pre \cup Range(chunk.rows)

\* push_chunk in SPILL_ALL without the test for an absent or empty batch
SpillPushChunk_without_empty_test(chunk, fail) ==
    /\ UNCHANGED <<build_chunk, accepted_pre>>
    /\ IF fail \in {"convert", "hash", "spill_buffer"}
       THEN /\ ret' = IOError
            /\ UNCHANGED <<mem_buf, is_first_time_spill, slice, tasks, drain_created,
                           accepted_post>>
       ELSE /\ mem_buf' = mem_buf \o chunk.rows
            /\ accepted_post' = accepted_post \cup Range(chunk.rows)
            /\ IF is_first_time_spill
               THEN /\ is_first_time_spill' = FirstTimeSpillAfterDrain
                    /\ slice' = ConvertHashMapToChunk(build_chunk)
                    /\ drain_created' = drain_created + 1
                    /\ IF fail = "spill_task"
                       THEN ret' = IOError /\ UNCHANGED tasks
                       ELSE ret' = OK /\ tasks' = Append(tasks, "drain")
               ELSE /\ ret' = OK
                    /\ UNCHANGED <<is_first_time_spill, slice, tasks, drain_created>>

\* push_chunk in SPILL_ALL: the batch goes to the spill buffer, and the first
\* such push also creates and enqueues the task that drains the hash table.
SpillPushChunk(chunk, fail) ==
    /\ UNCHANGED <<build_chunk, accepted_pre>>
    /\ IF ~chunk.present \/ ChunkIsEmpty(chunk)
       THEN /\ ret' = OK
            /\ UNCHANGED <<mem_buf, is_first_time_spill, slice, tasks, drain_created,
                           accepted_post>>
       ELSE IF fail \in {"convert", "hash", "spill_buffer"}
       THEN /\ ret' = IOError
            /\ UNCHANGED <<mem_buf, is_first_time_spill, slice, tasks, drain_created,
                           accepted_post>>
       ELSE /\ mem_buf' = mem_buf \o chunk.rows
            /\ accepted_post' = accepted_post \cup Range(chunk.rows)
            /\ IF is_first_time_spill
               THEN /\ is_first_time_spill' = FirstTimeSpillAfterDrain
                    /\ slice' = ConvertHashMapToChunk(build_chunk)
                    /\ drain_created' = drain_created + 1
                    /\ IF fail = "spill_task"
                       THEN ret' = IOError /\ UNCHANGED tasks
                       ELSE ret' = OK /\ tasks' = Append(tasks, "drain")
               ELSE /\ ret' = OK
                    /\ UNCHANGED <<is_first_time_spill, slice, tasks, drain_created>>

\* push_chunk(state, chunk), called by the scheduler while need_input() holds
\* and before set_finishing.
push_chunk ==
    /\ phase = "prepared"
    /\ NeedInput
    /\ \E present \in BOOLEAN, n \in 0..MaxBatch,
          fail \in {"none", "ht", "convert", "hash", "spill_buffer", "spill_task"} :
        /\ present \/ n = 0
        /\ next_row + n <= MaxRows + 1
        /\ LET chunk == Chunk(present, Iota(next_row, n)) IN
            /\ IF strategy = NO_SPILL
               THEN /\ BasePushChunk(chunk, fail)
                    /\ UNCHANGED <<mem_buf, is_first_time_spill, slice, tasks, drain_created,
                                   spill_pushes, accepted_post>>
               ELSE /\ SpillPushChunk(chunk, fail)
                    /\ spill_pushes' = spill_pushes + (IF n > 0 THEN 1 ELSE 0)
            /\ next_row' = next_row + n
    /\ revocable_mem_bytes' = MemUsage(build_chunk')
    /\ io_failed' = (io_failed \/ (strategy # NO_SPILL /\ ret' # OK))
    /\ lastOp' = "push_chunk"
    /\ UNCHANGED <<phase, spill_mode, strategy, is_finished, build_rows>>
    /\ UNCHANGED <<blocks, spiller_cancelled, flush_cb, current, chan_finishing>>
    /\ UNCHANGED <<envVars, mergerVars>>
    /\ UNCHANGED <<probe_entered, fin, mark_called, marked_unfinished>>
    /\ UNCHANGED pubVars

\* -------------------------------------------------------- mark_need_spill
\* mark_need_spill(), called by the memory governor at any time after prepare.
mark_need_spill ==
    /\ phase \in {"prepared", "finishing"}
    /\ strategy' = MarkStrategy(strategy, is_finished)
    /\ mark_called' = TRUE
    /\ marked_unfinished' = (marked_unfinished \/ ~is_finished)
    /\ lastOp' = "mark_need_spill"
    /\ UNCHANGED <<phase, spill_mode, is_finished, is_first_time_spill, build_chunk, slice,
                   revocable_mem_bytes, build_rows>>
    /\ UNCHANGED <<spillVars, chanVars, envVars, mergerVars>>
    /\ UNCHANGED <<probe_entered, next_row, ret, fin, drain_created, accepted_pre,
                   spill_pushes, accepted_post, io_failed>>
    /\ UNCHANGED pubVars

\* ---------------------------------------------------- Join Filter Merger
\* A vote is the last one (and resolves the node's filter) when every other
\* instance has voted already.
MergerResolves == active_builders = 1

\* publish_runtime_filters publishing without casting the always-true vote
publish_runtime_filters_without_vote ==
    /\ UNCHANGED always_true
    /\ active_builders' = active_builders - 1
    /\ IF MergerResolves
       THEN /\ published' = Append(published, "always_true")
            /\ collector_sets' = collector_sets + 1
       ELSE UNCHANGED <<published, collector_sets>>

\* publish_runtime_filters publishing whether or not its vote resolved the
\* merger
publish_runtime_filters_unmerged ==
    /\ always_true' = TRUE
    /\ active_builders' = active_builders - 1
    /\ published' = Append(published, "always_true")
    /\ collector_sets' = collector_sets + 1

\* set_always_true() followed by the publication of the empty filter lists
\* and set_collector when the vote resolved the merger.
publish_runtime_filters ==
    /\ always_true' = TRUE
    /\ active_builders' = active_builders - 1
    /\ IF MergerResolves
       THEN /\ published' = Append(published, "always_true")
            /\ collector_sets' = collector_sets + 1
       ELSE UNCHANGED <<published, collector_sets>>

\* The vote of an instance that built its hash table in memory: a real
\* filter, published by the vote that resolves the merger.
VoteRealFilter ==
    /\ active_builders' = active_builders - 1
    /\ UNCHANGED always_true
    /\ IF MergerResolves
       THEN /\ published' = Append(published, IF always_true THEN "always_true" ELSE "real")
            /\ collector_sets' = collector_sets + 1
       ELSE UNCHANGED <<published, collector_sets>>

\* A vote that reaches the merger after it resolved is ignored.
LateVote == UNCHANGED mergerVars

\* Another build instance of the same join node finishes and votes, or votes
\* again after the node's filter was resolved.
PeerFinish ==
    /\ \/ /\ active_builders > (IF phase = "finishing" THEN 0 ELSE 1)
          /\ \/ VoteRealFilter
             \/ publish_runtime_filters
          /\ lastOp' = "peer_finish"
       \/ /\ active_builders = 0
          /\ LateVote
          /\ lastOp' = "late_vote"
    /\ UNCHANGED <<opVars, spillVars, chanVars, envVars>>
    /\ UNCHANGED <<probe_entered, next_row, ret, fin, mark_called, marked_unfinished,
                   drain_created, accepted_pre, spill_pushes, accepted_post, io_failed>>
    /\ UNCHANGED pubVars

\* ---------------------------------------------------------- set_finishing
\* spiller()->set_flush_all_call_back(...): fails fast once cancelled, may
\* fail on I/O, otherwise the one-shot callback is registered.
SetFlushAllCallBackResults(cancel) == IF cancel THEN {Cancelled} ELSE {OK, IOError}

\* set_finishing(state), called once by the scheduler.
set_finishing ==
    /\ phase = "prepared"
    /\ phase' = "finishing"
    /\ lastOp' = "set_finishing"
    /\ IF ~Spilled
       THEN \* in-memory path: HashJoinBuildOperator::set_finishing
            /\ chan_finishing' = TRUE
            /\ VoteRealFilter
            /\ is_finished' = TRUE
            /\ probe_entered' = probe_entered + 1
            /\ ret' = OK
            /\ fin' = [path |-> "memory", pub |-> NoStatus, flush |-> NoStatus, ret |-> OK,
                       cancelled |-> cancelled]
            /\ UNCHANGED <<spiller_cancelled, flush_cb, tasks, io_failed>>
       ELSE \* spilled path
            /\ spiller_cancelled' = (spiller_cancelled \/ cancelled)
            /\ publish_runtime_filters
            /\ UNCHANGED <<is_finished, probe_entered>>
            /\ IF IsWorking
               THEN /\ tasks' = Append(tasks, "flush_all")
                    /\ UNCHANGED <<chan_finishing, flush_cb, io_failed>>
                    /\ ret' = FinishingResult(OK, OK, nrvo)
                    /\ fin' = [path |-> "enqueued", pub |-> OK, flush |-> OK, ret |-> ret',
                               cancelled |-> cancelled]
               ELSE /\ chan_finishing' = TRUE
                    /\ UNCHANGED tasks
                    /\ \E st \in SetFlushAllCallBackResults(spiller_cancelled') :
                        /\ flush_cb' = IF st = OK THEN "registered" ELSE flush_cb
                        /\ io_failed' = (io_failed \/ st = IOError)
                        /\ ret' = FinishingResult(OK, st, nrvo)
                        /\ fin' = [path |-> "direct", pub |-> OK, flush |-> st, ret |-> ret',
                                   cancelled |-> cancelled]
    /\ UNCHANGED <<spill_mode, strategy, is_first_time_spill, build_chunk, slice,
                   revocable_mem_bytes, build_rows>>
    /\ UNCHANGED <<mem_buf, blocks, current>>
    /\ UNCHANGED envVars
    /\ UNCHANGED <<next_row, mark_called, marked_unfinished, drain_created, accepted_pre,
                   spill_pushes, accepted_post>>
    /\ UNCHANGED pubVars

\* The query is cancelled.
Cancel ==
    /\ phase = "prepared"
    /\ ~cancelled
    /\ cancelled' = TRUE
    /\ lastOp' = "cancel"
    /\ UNCHANGED <<opVars, spillVars, chanVars, nrvo, mergerVars>>
    /\ UNCHANGED <<probe_entered, next_row, ret, fin, mark_called, marked_unfinished,
                   drain_created, accepted_pre, spill_pushes, accepted_post, io_failed>>
    /\ UNCHANGED pubVars

\* ----------------------------------------------------------- I/O executor
\* The executor takes the task at the head of the channel's queue.
AcquireTask ==
    /\ current = "none"
    /\ tasks # <<>>
    /\ current' = Head(tasks)
    /\ tasks' = Tail(tasks)
    /\ lastOp' = "acquire_task"
    /\ UNCHANGED <<opVars, spillVars, chan_finishing, envVars, mergerVars>>
    /\ UNCHANGED <<probe_entered, next_row, ret, fin, mark_called, marked_unfinished,
                   drain_created, accepted_pre, spill_pushes, accepted_post, io_failed>>
    /\ UNCHANGED pubVars

\* One call of the drain task (the closure _convert_hash_map_to_chunk returns):
\* end of stream and a hash table reset once the cursor is empty, otherwise the
\* next batch of at most chunk_size rows, which the executor hands to the
\* Spill Engine.
RunDrainTask ==
    /\ current = "drain"
    /\ IF DrainExhausted(slice)
       THEN /\ build_chunk' = EmptyBuildChunk
            /\ current' = "none"
            /\ UNCHANGED <<slice, mem_buf, build_rows, io_failed>>
       ELSE /\ slice' = Suffix(slice, ChunkSize)
            /\ UNCHANGED build_chunk
            /\ \E fail \in {"none", "hash"} :
                /\ io_failed' = (io_failed \/ fail = "hash")
                /\ build_rows' = IF fail = "hash" THEN build_rows
                                 ELSE build_rows + Len(Prefix(slice, ChunkSize))
                /\ IF fail = "hash" \/ spiller_cancelled
                   THEN current' = "none" /\ UNCHANGED mem_buf
                   ELSE mem_buf' = mem_buf \o Prefix(slice, ChunkSize) /\ UNCHANGED current
    /\ lastOp' = "drain_task"
    /\ UNCHANGED <<phase, spill_mode, strategy, is_finished, is_first_time_spill,
                   revocable_mem_bytes>>
    /\ UNCHANGED <<blocks, spiller_cancelled, flush_cb, tasks, chan_finishing>>
    /\ UNCHANGED <<envVars, mergerVars>>
    /\ UNCHANGED <<probe_entered, next_row, ret, fin, mark_called, marked_unfinished,
                   drain_created, accepted_pre, spill_pushes, accepted_post>>
    /\ UNCHANGED pubVars

\* The task set_finishing enqueued when the channel was working: it marks the
\* channel finishing and registers the flush-all callback.
RunFlushAllTask ==
    /\ current = "flush_all"
    /\ chan_finishing' = TRUE
    /\ \E st \in SetFlushAllCallBackResults(spiller_cancelled) :
        /\ flush_cb' = IF st = OK THEN "registered" ELSE flush_cb
        /\ io_failed' = (io_failed \/ st = IOError)
    /\ current' = "none"
    /\ lastOp' = "flush_all_task"
    /\ UNCHANGED <<opVars, mem_buf, blocks, spiller_cancelled, tasks, envVars, mergerVars>>
    /\ UNCHANGED <<probe_entered, next_row, ret, fin, mark_called, marked_unfinished,
                   drain_created, accepted_pre, spill_pushes, accepted_post>>
    /\ UNCHANGED pubVars

\* The Spill Engine writes its buffered rows to a block.
FlushBuffer ==
    /\ mem_buf # <<>>
    /\ ~spiller_cancelled
    /\ blocks' = blocks \o mem_buf
    /\ mem_buf' = <<>>
    /\ lastOp' = "flush"
    /\ UNCHANGED <<opVars, spiller_cancelled, flush_cb, chanVars, envVars, mergerVars>>
    /\ UNCHANGED <<probe_entered, next_row, ret, fin, mark_called, marked_unfinished,
                   drain_created, accepted_pre, spill_pushes, accepted_post, io_failed>>
    /\ UNCHANGED pubVars

\* The flush-all callback entering the probe phase without setting
\* _is_finished
FlushAllCallBack_without_finish ==
    /\ flush_cb = "registered"
    /\ mem_buf = <<>>
    /\ ~spiller_cancelled
    /\ flush_cb' = "fired"
    /\ probe_entered' = probe_entered + 1
    /\ lastOp' = "flush_all_call_back"
    /\ UNCHANGED <<opVars, mem_buf, blocks, spiller_cancelled, chanVars, envVars, mergerVars>>
    /\ UNCHANGED <<next_row, ret, fin, mark_called, marked_unfinished,
                   drain_created, accepted_pre, spill_pushes, accepted_post, io_failed>>
    /\ UNCHANGED pubVars

\* The flush-all callback registered by set_finishing fires once every
\* buffered partition has been flushed: the instance is finished and the probe
\* phase is entered.
FlushAllCallBack ==
    /\ flush_cb = "registered"
    /\ mem_buf = <<>>
    /\ ~spiller_cancelled
    /\ flush_cb' = "fired"
    /\ is_finished' = TRUE
    /\ probe_entered' = probe_entered + 1
    /\ lastOp' = "flush_all_call_back"
    /\ UNCHANGED <<phase, spill_mode, strategy, is_first_time_spill, build_chunk, slice,
                   revocable_mem_bytes, build_rows>>
    /\ UNCHANGED <<mem_buf, blocks, spiller_cancelled, chanVars, envVars, mergerVars>>
    /\ UNCHANGED <<next_row, ret, fin, mark_called, marked_unfinished,
                   drain_created, accepted_pre, spill_pushes, accepted_post, io_failed>>
    /\ UNCHANGED pubVars

Next ==
    \/ prepare
    \/ push_chunk
    \/ mark_need_spill
    \/ set_finishing
    \/ Cancel
    \/ PeerFinish
    \/ AcquireTask
    \/ RunDrainTask
    \/ RunFlushAllTask
    \/ FlushBuffer
    \/ FlushAllCallBack

Spec == Init /\ [][Next]_vars

\* Spec with a fair I/O executor: a task at the head of the channel's queue is
\* eventually taken, a running task eventually takes its next step, the Spill
\* Engine eventually flushes what it buffers and eventually fires a registered
\* callback whose condition stays met.
FairSpec ==
    /\ Spec
    /\ WF_vars(AcquireTask)
    /\ WF_vars(RunDrainTask)
    /\ WF_vars(RunFlushAllTask)
    /\ WF_vars(FlushBuffer)
    /\ WF_vars(FlushAllCallBack)

\* ============================================== run_publish_version_task
\* What token->submit_func can return: accepted, the pool is busy, or another
\* failure of the pool.
SubmitResults == {OK, ServiceUnavailable, RuntimeError}
\* What txn_manager()->publish_txn can return.
PublishTxnResults == {OK, InternalError}

\* The submit loop resubmitting whatever the failure
SubmitLoopContinues_any_failure(st, retries) ==
    st # OK /\ retries < PUBLISH_VERSION_SUBMIT_MAX_RETRY

\* The submit loop: after a submission returned st, with retry_time already
\* incremented to retries, another submission follows only after a
\* service-unavailable result and while retry_time++ < MAX_RETRY passes.
SubmitLoopContinues(st, retries) ==
    st = ServiceUnavailable /\ retries < PUBLISH_VERSION_SUBMIT_MAX_RETRY

\* After the loop: a failed submission becomes the task's status.
StatusAfterSubmit(task_st, st) == IF st # OK THEN st ELSE task_st

\* The task body reporting a dropped tablet as an error
TabletTaskStatus_dropped_is_error(task, found, publish_result) ==
    IF ~task.rowset THEN NotFound
    ELSE IF ~found THEN NotFound
    ELSE publish_result

\* The status the task body leaves in task.st: NotFound without a rowset,
\* untouched when the tablet is gone, else the result of publish_txn.
TabletTaskStatus(task, found, publish_result) ==
    IF ~task.rowset THEN NotFound
    ELSE IF ~found THEN task.st
    ELSE publish_result

RECURSIVE FoldStatus_last_error(_, _)
\* The status loop letting every failing task overwrite st
FoldStatus_last_error(st, tt) ==
    IF tt = <<>> THEN st
    ELSE FoldStatus_last_error(IF Head(tt).st # OK THEN Head(tt).st ELSE st, Tail(tt))

RECURSIVE FoldStatus(_, _)
\* The loop over tablet_tasks that keeps the first non-OK status in st.
FoldStatus(st, tt) ==
    IF tt = <<>> THEN st
    ELSE FoldStatus(IF Head(tt).st # OK /\ st = OK THEN Head(tt).st ELSE st, Tail(tt))

RECURSIVE ErrorTabletIds(_)
\* The same loop's error_tablet_ids: the id of every task whose status is
\* not OK, in task order.
ErrorTabletIds(tt) ==
    IF tt = <<>> THEN <<>>
    ELSE (IF Head(tt).st # OK THEN <<Head(tt).tablet_id>> ELSE <<>>)
         \o ErrorTabletIds(Tail(tt))

RECURSIVE TabletVersions(_, _)
\* tablet_versions: for each tablet of the partition from id t on that still
\* exists and has a positive max_continuous_version, its id and that version.
TabletVersions(tb, t) ==
    IF t > Len(tb) THEN <<>>
    ELSE (IF tb[t].exists /\ tb[t].max_continuous_version > 0
          THEN <<[tablet_id |-> t, version |-> tb[t].max_continuous_version]>>
          ELSE <<>>)
         \o TabletVersions(tb, t + 1)

\* The hash join variables take no part in PublishSpec.
JoinIdle ==
    /\ phase = "constructed"
    /\ spill_mode = "AUTO"
    /\ strategy = NO_SPILL
    /\ is_finished = FALSE
    /\ is_first_time_spill = TRUE
    /\ build_chunk = EmptyBuildChunk
    /\ slice = <<>>
    /\ revocable_mem_bytes = 0
    /\ build_rows = 0
    /\ mem_buf = <<>>
    /\ blocks = <<>>
    /\ spiller_cancelled = FALSE
    /\ flush_cb = "none"
    /\ tasks = <<>>
    /\ current = "none"
    /\ chan_finishing = FALSE
    /\ cancelled = FALSE
    /\ nrvo = FALSE
    /\ active_builders = NumPeers + 1
    /\ always_true = FALSE
    /\ published = <<>>
    /\ collector_sets = 0
    /\ probe_entered = 0
    /\ next_row = 1
    /\ lastOp = "none"
    /\ ret = NoStatus
    /\ fin = [path |-> "none", pub |-> NoStatus, flush |-> NoStatus, ret |-> NoStatus,
              cancelled |-> FALSE]
    /\ mark_called = FALSE
    /\ marked_unfinished = FALSE
    /\ drain_created = 0
    /\ accepted_pre = {}
    /\ spill_pushes = 0
    /\ accepted_post = {}
    /\ io_failed = FALSE

\* run_publish_version_task is entered: one tablet task per tablet of the
\* transaction, each with or without its rowset, every status OK.
PublishInit ==
    /\ JoinIdle
    /\ \E n \in 0..MaxTablets :
        /\ \E rs \in [1..n -> BOOLEAN] :
              tablet_tasks = [i \in 1..n |-> [tablet_id |-> i, rowset |-> rs[i], st |-> OK]]
        /\ tablets = [t \in 1..n |-> [exists |-> TRUE, max_continuous_version |-> 0]]
        /\ body_runs = [i \in 1..n |-> 0]
        /\ last_submit = [i \in 1..n |-> NoStatus]
        /\ publish_calls = [i \in 1..n |-> 0]
        /\ pc = IF n = 0 THEN "wait" ELSE "submit"
    /\ tablet_idx = 1
    /\ retry_time = 0
    /\ pool = {}
    /\ affected_dirs = {}
    /\ finish_task = [task_status |-> NoStatus, error_tablet_ids |-> <<>>,
                      isset_error_tablet_ids |-> FALSE, tablet_versions |-> <<>>,
                      isset_tablet_versions |-> FALSE]
    /\ dropped_seen = {}
    /\ warnings = {}

\* One pass of the submit loop for the task at tablet_idx: retry_time is
\* incremented, the task is submitted, and when the loop ends a failed
\* submission is stored as the task's status and the next task is taken up.
SubmitTabletTask ==
    /\ pc = "submit"
    /\ retry_time < PUBLISH_VERSION_SUBMIT_MAX_RETRY
    /\ \E st \in SubmitResults :
        /\ pool' = IF st = OK THEN pool \cup {tablet_idx} ELSE pool
        /\ last_submit' = [last_submit EXCEPT ![tablet_idx] = st]
        /\ IF SubmitLoopContinues(st, retry_time + 1)
           THEN /\ retry_time' = retry_time + 1
                /\ UNCHANGED <<pc, tablet_tasks, tablet_idx>>
           ELSE /\ tablet_tasks' =
                      [tablet_tasks EXCEPT ![tablet_idx].st = StatusAfterSubmit(@, st)]
                /\ retry_time' = 0
                /\ tablet_idx' = tablet_idx + 1
                /\ pc' = IF tablet_idx = Len(tablet_tasks) THEN "wait" ELSE "submit"
    /\ UNCHANGED <<tablets, affected_dirs, finish_task, body_runs, publish_calls,
                   dropped_seen, warnings>>
    /\ UNCHANGED joinVars

\* A pool thread runs the body of a submitted task.
RunTabletTask ==
    /\ \E i \in pool :
        LET task == tablet_tasks[i]
            found == tablets[task.tablet_id].exists
        IN
        /\ pool' = pool \ {i}
        /\ body_runs' = [body_runs EXCEPT ![i] = @ + 1]
        /\ \E publish_result \in PublishTxnResults :
            /\ tablet_tasks' =
                  [tablet_tasks EXCEPT ![i].st = TabletTaskStatus(task, found, publish_result)]
            /\ IF ~task.rowset
               THEN /\ warnings' = warnings \cup {<<"rowset not found", task.tablet_id>>}
                    /\ UNCHANGED <<tablets, affected_dirs, publish_calls, dropped_seen>>
               ELSE IF ~found
               THEN /\ warnings' = warnings \cup {<<"tablet not found", task.tablet_id>>}
                    /\ dropped_seen' = dropped_seen \cup {i}
                    /\ UNCHANGED <<tablets, affected_dirs, publish_calls>>
               ELSE /\ affected_dirs' = affected_dirs \cup {task.tablet_id}
                    /\ publish_calls' = [publish_calls EXCEPT ![i] = @ + 1]
                    /\ tablets' = IF publish_result = OK
                                  THEN [tablets EXCEPT ![task.tablet_id].max_continuous_version = 1]
                                  ELSE tablets
                    /\ warnings' = IF publish_result = OK THEN warnings
                                   ELSE warnings \cup {<<"publish txn failed", task.tablet_id>>}
                    /\ UNCHANGED dropped_seen
    /\ UNCHANGED <<pc, tablet_idx, retry_time, finish_task, last_submit>>
    /\ UNCHANGED joinVars

\* token->wait() returns once every submitted task has run.
TokenWait ==
    /\ pc = "wait"
    /\ pool = {}
    /\ pc' = "collect"
    /\ UNCHANGED <<tablet_tasks, tablet_idx, retry_time, pool, tablets, affected_dirs,
                   finish_task, body_runs, publish_calls, dropped_seen, warnings, last_submit>>
    /\ UNCHANGED joinVars

\* The end of run_publish_version_task: the task statuses are folded into the
\* overall status and error_tablet_ids, the tablet versions are collected, and
\* finish_task is filled in.
FinishTask ==
    /\ pc = "collect"
    /\ pc' = "done"
    /\ LET error_tablet_ids == ErrorTabletIds(tablet_tasks) IN
       finish_task' = [task_status |-> FoldStatus(OK, tablet_tasks),
                       error_tablet_ids |-> error_tablet_ids,
                       isset_error_tablet_ids |-> error_tablet_ids # <<>>,
                       tablet_versions |-> TabletVersions(tablets, 1),
                       isset_tablet_versions |-> TRUE]
    /\ UNCHANGED <<tablet_tasks, tablet_idx, retry_time, pool, tablets, affected_dirs,
                   body_runs, publish_calls, dropped_seen, warnings, last_submit>>
    /\ UNCHANGED joinVars

\* The storage engine drops a tablet while the publish task is running.
DropTablet ==
    /\ pc \in {"submit", "wait", "collect"}
    /\ \E t \in 1..Len(tablets) :
        /\ tablets[t].exists
        /\ tablets' = [tablets EXCEPT ![t].exists = FALSE]
    /\ UNCHANGED <<pc, tablet_tasks, tablet_idx, retry_time, pool, affected_dirs,
                   finish_task, body_runs, publish_calls, dropped_seen, warnings, last_submit>>
    /\ UNCHANGED joinVars

PublishNext ==
    \/ SubmitTabletTask
    \/ RunTabletTask
    \/ TokenWait
    \/ FinishTask
    \/ DropTablet

PublishSpec == PublishInit /\ [][PublishNext]_vars

\* PublishSpec with threads that keep running: the submitting thread takes
\* its next step (submit, return from wait, fill in finish_task) and the pool
\* runs every task it accepted.
FairPublishSpec ==
    /\ PublishSpec
    /\ WF_vars(SubmitTabletTask)
    /\ WF_vars(RunTabletTask)
    /\ WF_vars(TokenWait)
    /\ WF_vars(FinishTask)

\* ================================================================= claims
\* number of times row r occurs in sequence s
Count(r, s) == Cardinality({i \in 1..Len(s) : s[i] = r})
\* the state of the program proper, without the history variables
progVars == <<opVars, spillVars, chanVars, envVars, mergerVars, probe_entered>>

\* C1: need_input() is false whenever the Spill Engine is full or the Spill
\* Channel holds queued or executing work, also while a task is executing
\* with an empty queue.
C1_NoInputWhileFullOrBusy ==
    (SpillerIsFull \/ HasTask \/ IsWorking) => ~NeedInput

\* C2 as stated: need_input() is true whenever the Spill Engine is not full
\* and the Spill Channel has no pending or working task, whatever the rest of
\* the state.
C2_InputWheneverIdle ==
    (~SpillerIsFull /\ ~HasTask /\ ~IsWorking) => NeedInput

\* C2 amended: need_input() is true whenever the instance is not finished, the
\* Spill Engine is not full and the Spill Channel has no pending or working
\* task; once is_finished() is true need_input() is false.
C2_InputWheneverIdleAndUnfinished ==
    /\ (~IsFinished /\ ~SpillerIsFull /\ ~HasTask /\ ~IsWorking) => NeedInput
    /\ IsFinished => ~NeedInput

\* C2 witness: the backpressure of a spilling instance has cleared (the
\* buffer was flushed, the channel is idle) and need_input() is true again.
C2_Witness ==
    /\ lastOp = "flush"
    /\ strategy = SPILL_ALL
    /\ ~IsFinished /\ ~SpillerIsFull /\ ~HasTask /\ ~IsWorking
    /\ NeedInput

\* C3: once mark_need_spill() has been called on an unfinished instance, no
\* step adds a row to the Build Index.
C3_NoInsertAfterMark ==
    [][marked_unfinished =>
         BuildIndexRows(build_chunk') \subseteq BuildIndexRows(build_chunk)]_vars

\* C3 witness: a non-empty batch was pushed after mark_need_spill() while the
\* Build Index held rows pushed before it.
C3_Witness ==
    /\ marked_unfinished
    /\ lastOp = "push_chunk"
    /\ accepted_post # {}
    /\ BuildIndexRows(build_chunk) # {}

\* C4 as stated: once the instance has finished after mark_need_spill() was
\* called, every row pushed before the call and every row pushed after it is
\* in the spill stream exactly once.
C4_AllRowsSpilledOnceFinished ==
    (marked_unfinished /\ IsFinished) =>
        \A r \in accepted_pre \cup accepted_post : Count(r, SpillStream) = 1

\* C4, what the code does keep: no row is duplicated and none leaves both the
\* Build Index and the spill stream.  Every row pushed in NO_SPILL is still
\* held in the Build Index or is in the spill stream, every row a push in
\* SPILL_ALL handed to the Spill Engine is in the spill stream and not in the
\* Build Index, and no row is in the spill stream twice.
C4_NoLossNoDuplication ==
    /\ \A r \in accepted_pre :
          /\ Count(r, SpillStream) <= 1
          /\ r \in BuildIndexRows(build_chunk) \/ Count(r, SpillStream) = 1
    /\ \A r \in accepted_post :
          /\ Count(r, SpillStream) = 1
          /\ r \notin BuildIndexRows(build_chunk)
    /\ Range(SpillStream) \subseteq accepted_pre \cup accepted_post

\* C5: the drain task is created and enqueued at most once per instance.
C5_DrainAtMostOnce ==
    /\ drain_created <= 1
    /\ Count("drain", tasks) + (IF current = "drain" THEN 1 ELSE 0) <= 1
    /\ is_first_time_spill => drain_created = 0

\* C5 witness: rows were pushed before spilling began and at least two
\* non-empty batches were pushed in SPILL_ALL.
C5_Witness ==
    /\ drain_created = 1
    /\ lastOp = "push_chunk"
    /\ spill_pushes >= 2
    /\ accepted_pre # {}

\* C6: in each spill partition the drained rows precede every row streamed by
\* push_chunk, and rows keep the order of the pushes that delivered them
\* (rows are numbered in push order).
C6_DrainedRowsFirst ==
    \A p \in 0..(NumPartitions - 1) :
        LET ps == PartitionStream(p) IN
        /\ \A i, j \in 1..Len(ps) :
              (ps[i] \in accepted_pre /\ ps[j] \in accepted_post) => i < j
        /\ \A i, j \in 1..Len(ps) : (i < j) => ps[i] <= ps[j]

\* C7: a second consecutive mark_need_spill() changes nothing, and a call on a
\* finished instance leaves the strategy as it was.
C7_MarkIdempotentAndNoOpWhenFinished ==
    [][lastOp' = "mark_need_spill" =>
         /\ (lastOp = "mark_need_spill" => progVars' = progVars)
         /\ (IsFinished => strategy' = strategy)]_vars

\* C7 witness: mark_need_spill() was called on an instance that finished in
\* NO_SPILL.
C7_Witness ==
    /\ lastOp = "mark_need_spill"
    /\ IsFinished
    /\ strategy = NO_SPILL

\* C8 as stated: whenever the strategy is SPILL_ALL, mark_need_spill() was
\* called earlier.
C8_SpillAllOnlyByMark ==
    strategy = SPILL_ALL => mark_called

\* C8 amended: whenever the strategy is SPILL_ALL, either mark_need_spill()
\* was called earlier on the unfinished instance or prepare() ran with spill
\* mode FORCE; no other operation sets SPILL_ALL.
C8_SpillAllOnlyByMarkOrForce ==
    strategy = SPILL_ALL =>
        \/ marked_unfinished
        \/ spill_mode = "FORCE" /\ phase \in {"prepared", "finishing"}

\* C8 witness: mark_need_spill() moved an instance prepared without forced
\* spilling to SPILL_ALL.
C8_Witness ==
    /\ strategy = SPILL_ALL
    /\ spill_mode = "AUTO"
    /\ lastOp = "mark_need_spill"

\* C9: an instance in SPILL_ALL is never again in NO_SPILL.
C9_StrategyMonotonic ==
    [][strategy = SPILL_ALL => strategy' = SPILL_ALL]_vars

\* C9 witness: an instance in SPILL_ALL went through set_finishing and the
\* flush-all callback and got a mark_need_spill() call after it finished.
C9_Witness ==
    /\ strategy = SPILL_ALL
    /\ IsFinished
    /\ flush_cb = "fired"
    /\ lastOp = "mark_need_spill"

\* C10: on the spilled path set_finishing returns the first non-success
\* result among filter publication and the flush step.
C10_FirstNonSuccessReturned ==
    fin.path \in {"enqueued", "direct"} =>
        fin.ret = (IF fin.pub # OK THEN fin.pub ELSE fin.flush)

\* C11: when the query is cancelled at the time set_finishing runs on a
\* spilled instance, the Spill Engine is cancelled and set_finishing returns
\* a cancellation error, with the flush step enqueued or registered directly.
C11_CancelledFinishingReturnsCancelled ==
    (fin.path \in {"enqueued", "direct"} /\ fin.cancelled) =>
        /\ spiller_cancelled
        /\ fin.ret = Cancelled

\* C12: once an instance has voted always-true (as the modelled instance
\* does on the spilled path of set_finishing), every filter set published for
\* the node is the always-true set; no real filter is published.
C12_SpilledMeansAlwaysTrue ==
    /\ fin.path \in {"enqueued", "direct"} => always_true
    /\ always_true => \A i \in 1..Len(published) : published[i] = "always_true"

\* C12 witness: the modelled instance spilled and voted first, and the vote
\* of another instance resolved the merger.
C12_Witness ==
    /\ fin.path \in {"enqueued", "direct"}
    /\ lastOp = "peer_finish"
    /\ published = <<"always_true">>

\* C13: the node's filter set is published and its collector set at most
\* once, only by the vote that makes the merger resolve, and never by a vote
\* cast after the resolution.
C13_PublishedAtMostOnce ==
    [][/\ Len(published') <= 1
       /\ collector_sets' <= 1
       /\ (published' # published \/ collector_sets' # collector_sets) =>
              /\ active_builders = 1
              /\ active_builders' = 0
              /\ lastOp' \in {"set_finishing", "peer_finish"}
       /\ active_builders = 0 => UNCHANGED <<published, collector_sets>>]_vars

\* C13 witness: every instance has voted, the filter set was published once,
\* and a further vote arrived after the resolution.
C13_Witness ==
    /\ fin.path \in {"enqueued", "direct"}
    /\ lastOp = "late_vote"
    /\ Len(published) = 1
    /\ collector_sets = 1

\* C14: set_finishing takes the in-memory path exactly when no row of the
\* instance was routed to the Spill Engine; an instance that handed any row
\* to the Spill Engine takes the spilled path.  (Rows reach the Spill Engine
\* first through a push in SPILL_ALL, and none is pushed after set_finishing.)
C14_InMemoryPathIffNeverSpilled ==
    fin.path # "none" => ((fin.path = "memory") <=> (accepted_post = {}))

\* C15: a push_chunk call with an empty or absent batch (the only calls that
\* consume no row number) returns success and leaves the Build Index, the
\* spill stream, the Spill Channel queue and the first-time-spill flag as
\* they were; in SPILL_ALL it creates no drain task.
C15_EmptyPushIsNoOp ==
    [][(lastOp' = "push_chunk" /\ next_row' = next_row) =>
         /\ ret' = OK
         /\ UNCHANGED <<build_chunk, mem_buf, blocks, tasks, is_first_time_spill,
                        slice, drain_created>>]_vars

\* C15 witness: an instance in SPILL_ALL whose Build Index holds rows got an
\* empty or absent batch as its first push after spilling began (a non-empty
\* one would have cleared the first-time-spill flag or failed).
C15_Witness ==
    /\ lastOp = "push_chunk"
    /\ strategy = SPILL_ALL
    /\ ret = OK
    /\ is_first_time_spill
    /\ accepted_pre # {}

\* C16: on the spilled path is_finished() becomes true and the probe phase is
\* entered only by the flush-all callback, and at that moment no drain task
\* is queued or executing and the Spill Engine buffers nothing.
C16_FinishedOnlyAfterTasksAndFlush ==
    [][(fin'.path \in {"enqueued", "direct"}
          /\ (is_finished' # is_finished \/ probe_entered' # probe_entered)) =>
         /\ lastOp' = "flush_all_call_back"
         /\ flush_cb = "registered" /\ flush_cb' = "fired"
         /\ mem_buf = <<>>
         /\ Count("drain", tasks) = 0 /\ current # "drain"]_vars

\* the tablet tasks whose status is not OK
FailingTasks == {i \in 1..Len(tablet_tasks) : tablet_tasks[i].st # OK}
\* the ids finish_task reports in error_tablet_ids
ReportedErrorIds == Range(finish_task.error_tablet_ids)

\* C17: when run_publish_version_task is done the overall status is OK exactly
\* when every tablet task's status is OK, otherwise it is the status of the
\* first failing task in task order, and error_tablet_ids lists each failing
\* tablet once (and is marked set exactly when it is not empty).
C17_FirstFailingTaskDecides ==
    pc = "done" =>
        /\ (finish_task.task_status = OK) <=> (FailingTasks = {})
        /\ FailingTasks # {} =>
              LET first == CHOOSE i \in FailingTasks : \A j \in FailingTasks : i <= j
              IN finish_task.task_status = tablet_tasks[first].st
        /\ ReportedErrorIds = {tablet_tasks[i].tablet_id : i \in FailingTasks}
        /\ Len(finish_task.error_tablet_ids) = Cardinality(FailingTasks)
        /\ finish_task.isset_error_tablet_ids = (FailingTasks # {})

\* C17 witness: the task is done, the first two tablet tasks failed with
\* different statuses, and the overall status is the first one's.
C17_Witness ==
    /\ pc = "done"
    /\ Len(tablet_tasks) >= 2
    /\ tablet_tasks[1].st # OK
    /\ tablet_tasks[2].st # OK
    /\ tablet_tasks[1].st # tablet_tasks[2].st
    /\ finish_task.task_status = tablet_tasks[1].st

\* C18: a tablet task whose body found its tablet dropped keeps status OK, had
\* no publish_txn call, left a warning, and once the task is done its tablet
\* is not in error_tablet_ids and any overall failure is the status of a task
\* whose tablet was not found dropped.
C18_DroppedTabletTolerated ==
    \A i \in dropped_seen :
        /\ tablet_tasks[i].st = OK
        /\ publish_calls[i] = 0
        /\ <<"tablet not found", tablet_tasks[i].tablet_id>> \in warnings
        /\ pc = "done" =>
              /\ tablet_tasks[i].tablet_id \notin ReportedErrorIds
              /\ finish_task.task_status # OK =>
                    \E j \in FailingTasks \ dropped_seen :
                        finish_task.task_status = tablet_tasks[j].st

\* C18 witness: the task is done with overall status OK and no error tablet,
\* one tablet was found dropped and another was published.
C18_Witness ==
    /\ pc = "done"
    /\ dropped_seen # {}
    /\ \E j \in 1..Len(tablet_tasks) : publish_calls[j] = 1
    /\ finish_task.task_status = OK
    /\ finish_task.error_tablet_ids = <<>>

\* C19: once the task is done, a tablet task that ran without its rowset has
\* not put its tablet in error_tablet_ids, and any overall failure is the
\* status of a task that had its rowset or never ran.
C19_MissingRowsetTolerated ==
    pc = "done" =>
        \A i \in 1..Len(tablet_tasks) :
            (~tablet_tasks[i].rowset /\ body_runs[i] > 0) =>
                /\ tablet_tasks[i].tablet_id \notin ReportedErrorIds
                /\ finish_task.task_status # OK =>
                      \E j \in FailingTasks :
                          /\ tablet_tasks[j].rowset \/ body_runs[j] = 0
                          /\ finish_task.task_status = tablet_tasks[j].st

\* C20: under a fair I/O executor, a spilled instance whose set_finishing
\* returned OK while the query was not cancelled eventually is finished unless
\* a spill step fails; a finished instance stays finished and needs no input,
\* and the probe phase is entered at most once, exactly once for a finished
\* instance.
C20_SpilledInstanceEventuallyFinishes ==
    /\ (fin.path \in {"enqueued", "direct"} /\ fin.ret = OK /\ ~fin.cancelled /\ ~io_failed)
          ~> (is_finished \/ io_failed)
    /\ [][is_finished => is_finished']_vars
    /\ [](is_finished => (~NeedInput /\ probe_entered = 1))
    /\ [](probe_entered <= 1)

\* C20 witness: a spilled instance whose flush step was enqueued behind a
\* running drain task has finished through the callback, without any failure
\* or cancellation.
C20_Witness ==
    /\ fin.path = "enqueued"
    /\ fin.ret = OK
    /\ ~fin.cancelled
    /\ ~io_failed
    /\ accepted_pre # {}
    /\ is_finished
    /\ probe_entered = 1

\* C21: a tablet task is submitted only while fewer than
\* PUBLISH_VERSION_SUBMIT_MAX_RETRY submissions of it were made, the first
\* time unconditionally and again only after a service-unavailable result;
\* the submit loop is left eventually and the publish task completes; a body
\* runs only after its submission was accepted and at most once; and when the
\* publish task is done a task whose last submission failed has that error as
\* its status, never ran and is in error_tablet_ids, while a task whose
\* submission was accepted ran exactly once.
C21_BoundedSubmitLoop ==
    /\ [][(tablet_idx' # tablet_idx \/ retry_time' # retry_time) =>
            /\ retry_time < PUBLISH_VERSION_SUBMIT_MAX_RETRY
            /\ retry_time = 0 => last_submit[tablet_idx] = NoStatus
            /\ retry_time > 0 => last_submit[tablet_idx] = ServiceUnavailable]_vars
    /\ <>(pc \notin {"idle", "submit"})
    /\ <>(pc = "done")
    /\ [](\A i \in 1..Len(tablet_tasks) :
            /\ body_runs[i] <= 1
            /\ body_runs[i] = 1 => last_submit[i] = OK
            /\ pc = "done" =>
                  IF last_submit[i] = OK
                  THEN body_runs[i] = 1
                  ELSE /\ last_submit[i] \in {ServiceUnavailable, RuntimeError}
                       /\ tablet_tasks[i].st = last_submit[i]
                       /\ body_runs[i] = 0
                       /\ tablet_tasks[i].tablet_id \in ReportedErrorIds)

\* C21 witness: the publish task is done; one tablet task used up its
\* submissions on a busy pool and never ran, another was accepted and ran.
C21_Witness ==
    /\ pc = "done"
    /\ \E i \in 1..Len(tablet_tasks) :
          /\ last_submit[i] = ServiceUnavailable
          /\ tablet_tasks[i].st = ServiceUnavailable
          /\ body_runs[i] = 0
    /\ \E j \in 1..Len(tablet_tasks) :
          /\ last_submit[j] = OK
          /\ body_runs[j] = 1

====
